---- MODULE Spec2Model ----
(***************************************************************************)
(* Model of the Neynar -> Telegram webhook notifier (src/server.js, the    *)
(* current handler, lines 1-447).  Node runs the handler single-threaded:  *)
(* the code between two network awaits is one atomic step, so an action    *)
(* here is everything a handler does from one suspension point to the next.*)
(***************************************************************************)
EXTENDS Integers, Sequences, FiniteSets, TLC

\* ----------------------------------------------------------------- bounds
NumProcs == 2
MaxFid == 2
MaxEventId == 2
MaxTicks == 3
FillSlack == 1

\* -------------------------------------------------------- program constants
Capacity == 5000
CACHE_TTL_MS == 10 * 60 * 1000

\* ------------------------------------------------------------------ values
Procs == 1..NumProcs
\* 0 stands for every falsy identifier: Number(undefined) = NaN, 0, null
NoFid == 0
RealFids == 1..MaxFid
Fids == {NoFid} \cup RealFids
\* 0 stands for a falsy evt.id (absent, "", 0, null)
NoId == 0
EventIds == 1..MaxEventId
Undef == "<undefined>"
Keys == {"username", "display_name", "bio", "pfp_url", "location", "website"}
keysToCheck == <<"username", "display_name", "bio", "pfp_url", "location", "website">>

Snap(un, dn, bio) ==
    [k \in Keys |-> CASE k = "username" -> un
                      [] k = "display_name" -> dn
                      [] k = "bio" -> bio
                      [] OTHER -> Undef]

\* header / secret values: 0 is the falsy one (absent header, "" secret)
NoSig == 0
NoSecret == 0
Secrets == {1}
RawBodies == {1, 2}
\* hex HMAC-SHA512 digest of the raw body under the secret, as a number >= 1
Hmac(s, b) == ((s * 31 + b * 17) % 97) + 1

VARIABLES
    env,         \* process.env read at start-up: secret, token, chat ids
    seen,        \* the Set `seen`, in insertion order
    userCache,   \* Map fid -> [snap, ts]
    lastProfile, \* Map fid -> snapshot
    now,         \* Date.now()
    pc,          \* per in-flight request: idle | lookup | send | done
    req,         \* the request a handler is serving
    loc,         \* the handler's locals across an await
    resp,        \* HTTP status sent (0: none yet)
    sends,       \* sendTG calls the handler made: <<[chat, text]>>
    posts,       \* Telegram sendMessage fetches the handler made
    invs,        \* fetchUsersByFids invocations of the handler
    resolved,    \* history: oldObj / newObj / lines of a user.updated handler
    verified,    \* result of verifySignature for the request
    dedup,       \* result of seenBefore for the request ("none" if not called)
    inserted,    \* history: the ids seenBefore added since Init, in order
    base         \* history: Init's record holds the ids 1..base, in that order

vars == <<base, env, seen, userCache, lastProfile, now, pc, req, loc, resp, sends,
          posts, invs, resolved, verified, dedup, inserted>>

\* ------------------------------------------------------------ pure helpers
Range(s) == {s[i] : i \in 1..Len(s)}
InSeq(s, x) == \E i \in 1..Len(s) : s[i] = x
\* a ?? b ?? c ... : the first value that is not null/undefined (nil)
Coalesce(paths, nil) ==
    IF \E i \in 1..Len(paths) : paths[i] # nil
    THEN paths[CHOOSE i \in 1..Len(paths) :
                  paths[i] # nil /\ \A j \in 1..(i - 1) : paths[j] = nil]
    ELSE nil
\* Number(v) of a payload fid: -1 is "no such field" (Number(undefined) = NaN)
NoField == -1
ToFid(v) == IF v = NoField THEN NoFid ELSE v
FidStr(f) == IF f = NoFid THEN "NaN" ELSE ToString(f)
EmptySnap == Snap(Undef, Undef, Undef)
\* Object.keys(o).length for a JSON object holding only the modelled keys
IsEmptyObj(o) == \A k \in Keys : o[k] = Undef
Placeholder(fid) == Snap("fid:" \o FidStr(fid), "fid:" \o FidStr(fid), Undef)

\* function verifySignature(req)
verifySignatureLax(secret, r) == TRUE
verifySignature(secret, r) ==
    IF r.sig = NoSig \/ secret = NoSecret THEN TRUE
    ELSE Hmac(secret, r.raw) = r.sig

\* function seenBefore(id): the value returned and the Set afterwards
seenBeforeNoAdd(s, id) == [ret |-> id # NoId /\ InSeq(s, id), seen |-> s]
seenBeforeNoEvict(s, id) ==
    IF id = NoId THEN [ret |-> FALSE, seen |-> s]
    ELSE IF InSeq(s, id) THEN [ret |-> TRUE, seen |-> s]
    ELSE [ret |-> FALSE, seen |-> Append(s, id)]
seenBeforeEvictNewest(s, id) ==
    IF id = NoId THEN [ret |-> FALSE, seen |-> s]
    ELSE IF InSeq(s, id) THEN [ret |-> TRUE, seen |-> s]
    ELSE [ret |-> FALSE,
          seen |-> IF Len(s) + 1 > Capacity THEN s ELSE Append(s, id)]
seenBeforeRefresh(s, id) ==
    IF id = NoId THEN [ret |-> FALSE, seen |-> s]
    ELSE IF InSeq(s, id)
         THEN [ret |-> TRUE,
               seen |-> Append(SelectSeq(s, LAMBDA e : e # id), id)]
    ELSE LET a == Append(s, id)
         IN  [ret |-> FALSE,
              seen |-> IF Len(a) > Capacity THEN Tail(a) ELSE a]
seenBefore(s, id) ==
    IF id = NoId THEN [ret |-> FALSE, seen |-> s]
    ELSE IF InSeq(s, id) THEN [ret |-> TRUE, seen |-> s]
    ELSE LET a == Append(s, id)
         IN  [ret |-> FALSE,
              seen |-> IF Len(a) > Capacity THEN Tail(a) ELSE a]

\* ------------------------------------------------------------ configuration
\* an environment variable is absent (Undef), empty ("") or holds a value
Falsy(v) == v = Undef \/ v = ""
NoChat == Undef
TG_TOKEN == env.token
TG_CHAT_ID_FOLLOW == env.follow
TG_CHAT_ID_ACTIVITY == IF Falsy(env.activity) THEN TG_CHAT_ID_FOLLOW ELSE env.activity
TG_CHAT_ID_TRADE == env.trade
NEYNAR_SECRET == env.secret

\* --------------------------------------------------------------- extractors
NoUser == [present |-> FALSE, fid |-> NoField, snap |-> EmptySnap]

\* function extractFollow(evt)
extractFollow(r) ==
    [actor_fid |-> ToFid(Coalesce(r.actorPaths, NoField)),
     target_fid |-> ToFid(Coalesce(r.targetPaths, NoField)),
     actor_username |-> r.actor_username,
     target_username |-> r.target_username]

\* function extractUserUpdated(evt)
extractUserUpdated(r) ==
    [fid |-> ToFid(Coalesce(<<IF r.user.present THEN r.user.fid ELSE NoField,
                              r.dfid>>, NoField)),
     username |-> IF r.user.present THEN r.user.snap["username"] ELSE Undef,
     updatedFields |-> r.updated_fields,
     before |-> r.before,
     after |-> IF r.user.present THEN r.user.snap ELSE r.afterAlt,
     afterEmpty |-> IF r.user.present
                    THEN r.user.fid = NoField /\ IsEmptyObj(r.user.snap)
                    ELSE IsEmptyObj(r.afterAlt)]

\* function extractCastCreated(evt)
extractCastCreated(r) ==
    LET parentCastHash == Coalesce(r.parents, Undef)
        channelParentUrl == r.channel
    IN  [fid |-> ToFid(Coalesce(r.castFidPaths, NoField)),
         username |-> r.cast_username,
         isRoot |-> Falsy(parentCastHash)]

\* function extractTradeCreated(evt)
extractTradeCreated(r) ==
    [traderFid |-> ToFid(r.trader_fid), username |-> r.trader_username]

\* ------------------------------------------------------- handler plumbing
NoLoc == [site |-> "none", fids |-> <<>>, need |-> <<>>, now |-> 0, u |-> Undef,
          old |-> EmptySnap]
\* the snapshots a user.updated handler settled on (history)
NoRes == [has |-> FALSE, old |-> EmptySnap, new |-> EmptySnap, lines |-> <<>>]
Ctx(p) == [uc |-> userCache, lp |-> lastProfile, sends |-> sends[p],
           posts |-> posts[p], invs |-> invs[p], res |-> resolved[p]]
Commit(p, c, newpc, newloc, status) ==
    /\ userCache' = c.uc
    /\ lastProfile' = c.lp
    /\ sends' = [sends EXCEPT ![p] = c.sends]
    /\ posts' = [posts EXCEPT ![p] = c.posts]
    /\ invs' = [invs EXCEPT ![p] = c.invs]
    /\ resolved' = [resolved EXCEPT ![p] = c.res]
    /\ pc' = [pc EXCEPT ![p] = newpc]
    /\ loc' = [loc EXCEPT ![p] = newloc]
    /\ resp' = [resp EXCEPT ![p] = status]

Text(kind, names, lines) == [kind |-> kind, names |-> names, lines |-> lines]

\* async function sendTG(text, chatId = TG_CHAT_ID_FOLLOW), always followed by
\* res.send("ok"); the default applies to an argument that is undefined
DefaultChat(chatArg) == IF chatArg = Undef THEN TG_CHAT_ID_FOLLOW ELSE chatArg
sendTGAlwaysPosts(p, c, text, chatArg) ==
    Commit(p, [c EXCEPT !.sends = Append(@, [chat |-> DefaultChat(chatArg),
                                             text |-> text]),
                        !.posts = Append(@, [chat |-> DefaultChat(chatArg),
                                             outcome |-> "pending"])],
           "send", NoLoc, 0)
sendTG(p, c, text, chatArg) ==
    LET chatId == DefaultChat(chatArg)
        c1 == [c EXCEPT !.sends = Append(@, [chat |-> chatId, text |-> text])]
    IN  IF Falsy(TG_TOKEN) \/ Falsy(chatId)
        THEN Commit(p, c1, "done", NoLoc, 200)
        ELSE Commit(p, [c1 EXCEPT !.posts =
                            Append(@, [chat |-> chatId, outcome |-> "pending"])],
                    "send", NoLoc, 0)

\* ------------------------------------------------------- fetchUsersByFids
\* lines 50-55: the ids with no cache entry or an entry older than the TTL
NeedAll(uc, fids, t) == fids
NeedMissingOnly(uc, fids, t) == SelectSeq(fids, LAMBDA f : f \notin DOMAIN uc)
Need(uc, fids, t) ==
    SelectSeq(fids, LAMBDA f : f \notin DOMAIN uc \/ t - uc[f].ts > CACHE_TTL_MS)
\* lines 64-73: the cache entry built from one returned user
OrElse(v) == IF v = "" THEN Undef ELSE v
CacheEntry(u, ts) ==
    [snap |-> [k \in Keys |-> IF k \in {"username", "display_name"}
                              THEN u[k] ELSE OrElse(u[k])],
     ts |-> ts]
Store(uc, users, ts) ==
    [f \in DOMAIN uc \cup DOMAIN users |->
        IF f \in DOMAIN users THEN CacheEntry(users[f], ts) ELSE uc[f]]
\* lines 81-88
OutNoPlaceholder(uc, fids) ==
    [f \in Range(fids) |-> IF f \in DOMAIN uc THEN uc[f].snap ELSE EmptySnap]
Out(uc, fids) ==
    [f \in Range(fids) |-> IF f \in DOMAIN uc THEN uc[f].snap ELSE Placeholder(f)]
\* history record of one invocation: what was asked, the entries' ages then,
\* and the result once it is built (lines 81-88)
NotBuilt == <<>>
Invocation(uc, fids, need, t) ==
    [fids |-> fids, need |-> need, at |-> t,
     ages |-> [f \in Range(fids) |-> IF f \in DOMAIN uc THEN t - uc[f].ts ELSE -1],
     calls |-> IF need = <<>> THEN 0 ELSE 1,
     outcome |-> IF need = <<>> THEN "nocall" ELSE "pending",
     out |-> IF need = <<>> THEN Out(uc, fids) ELSE NotBuilt]
\* the invocation resumes after its fetch and builds its result
Resume(s, o, out) == [s EXCEPT ![Len(s)].outcome = o, ![Len(s)].out = out]

\* a ?? b ?? c on names
Name3(a, b, c) == IF a # Undef THEN a ELSE IF b # Undef THEN b ELSE c

\* ------------------------------------------------------ user.updated diff
Render(v) == IF v = Undef \/ v = "" THEN "(empty)" ELSE v
\* line 291: k.replace(/_/g, " ").toUpperCase()
LabelSpaced(k) ==
    CASE k = "username" -> "USERNAME"
      [] k = "display_name" -> "DISPLAY NAME"
      [] k = "bio" -> "BIO"
      [] k = "pfp_url" -> "PFP URL"
      [] k = "location" -> "LOCATION"
      [] k = "website" -> "WEBSITE"
\* line 335: key.toUpperCase()
LabelUpper(k) ==
    CASE k = "username" -> "USERNAME"
      [] k = "display_name" -> "DISPLAY_NAME"
      [] k = "bio" -> "BIO"
      [] k = "pfp_url" -> "PFP_URL"
      [] k = "location" -> "LOCATION"
      [] k = "website" -> "WEBSITE"
\* lines 289-296, 318-328: one line per canonical key whose values differ
changeLinesOfBothDefined(oldObj, newObj) ==
    LET keep == SelectSeq(keysToCheck, LAMBDA k :
                    (oldObj[k] # Undef /\ newObj[k] # Undef) /\ oldObj[k] # newObj[k])
    IN  [i \in 1..Len(keep) |->
            [form |-> "change", key |-> LabelSpaced(keep[i]),
             old |-> Render(oldObj[keep[i]]), new |-> Render(newObj[keep[i]])]]
changeLinesOfAll(oldObj, newObj) ==
    LET keep == SelectSeq(keysToCheck, LAMBDA k :
                    oldObj[k] # Undef \/ newObj[k] # Undef)
    IN  [i \in 1..Len(keep) |->
            [form |-> "change", key |-> LabelSpaced(keep[i]),
             old |-> Render(oldObj[keep[i]]), new |-> Render(newObj[keep[i]])]]
changeLinesOf(oldObj, newObj) ==
    LET keep == SelectSeq(keysToCheck, LAMBDA k :
                    (oldObj[k] # Undef \/ newObj[k] # Undef) /\ oldObj[k] # newObj[k])
    IN  [i \in 1..Len(keep) |->
            [form |-> "change", key |-> LabelSpaced(keep[i]),
             old |-> Render(oldObj[keep[i]]), new |-> Render(newObj[keep[i]])]]
\* lines 330-338: only a list of updated fields, show the current values
currentLinesOf(updatedFields, newObj) ==
    [i \in 1..Len(updatedFields) |->
        [form |-> "current", key |-> LabelUpper(updatedFields[i]), old |-> "",
         new |-> IF updatedFields[i] \in Keys /\ newObj[updatedFields[i]] # Undef
                 THEN newObj[updatedFields[i]] ELSE "(empty)"]]
GenericLine == [form |-> "generic", key |-> "", old |-> "", new |-> ""]

\* lines 318-362: diff, remember the snapshot, notify
UUFinishStoreOnChange(p, c, r, u, oldObj, newObj) ==
    LET x == extractUserUpdated(r)
        l1 == changeLinesOf(oldObj, newObj)
        l2 == IF l1 = <<>> /\ x.updatedFields # <<>>
              THEN currentLinesOf(x.updatedFields, newObj) ELSE l1
        l3 == IF l2 = <<>> THEN <<GenericLine>> ELSE l2
        lp1 == IF x.fid # NoFid /\ l1 # <<>>
               THEN [f \in DOMAIN c.lp \cup {x.fid} |->
                        IF f = x.fid THEN newObj ELSE c.lp[f]]
               ELSE c.lp
    IN  sendTG(p, [c EXCEPT !.lp = lp1,
                            !.res = [has |-> TRUE, old |-> oldObj, new |-> newObj,
                                     lines |-> l3]],
               Text("user.updated", <<u>>, l3), TG_CHAT_ID_ACTIVITY)
UUFinish(p, c, r, u, oldObj, newObj) ==
    LET x == extractUserUpdated(r)
        l1 == changeLinesOf(oldObj, newObj)
        l2 == IF l1 = <<>> /\ x.updatedFields # <<>>
              THEN currentLinesOf(x.updatedFields, newObj) ELSE l1
        l3 == IF l2 = <<>> THEN <<GenericLine>> ELSE l2
        lp1 == IF x.fid # NoFid
               THEN [f \in DOMAIN c.lp \cup {x.fid} |->
                        IF f = x.fid THEN newObj ELSE c.lp[f]]
               ELSE c.lp
    IN  sendTG(p, [c EXCEPT !.lp = lp1,
                            !.res = [has |-> TRUE, old |-> oldObj, new |-> newObj,
                                     lines |-> l3]],
               Text("user.updated", <<u>>, l3), TG_CHAT_ID_ACTIVITY)

\* lines 298-316: pick oldObj / newObj, fetching the new one if need be
UUResolveLastFirst(p, c, r, u) ==
    LET x == extractUserUpdated(r)
        oldObj == IF x.fid # NoFid /\ x.fid \in DOMAIN c.lp THEN c.lp[x.fid]
                  ELSE IF ~IsEmptyObj(x.before) THEN x.before
                  ELSE EmptySnap
        fids == <<x.fid>>
        need == Need(c.uc, fids, now)
        c1 == [c EXCEPT !.invs = Append(@, Invocation(c.uc, fids, need, now))]
    IN  IF ~x.afterEmpty THEN UUFinish(p, c, r, u, oldObj, x.after)
        ELSE IF need = <<>>
             THEN UUFinish(p, c1, r, u, oldObj, Out(c1.uc, fids)[x.fid])
             ELSE Commit(p, c1, "lookup",
                         [site |-> "uu_new", fids |-> fids, need |-> need,
                          now |-> now, u |-> u, old |-> oldObj], 0)
UUResolve(p, c, r, u) ==
    LET x == extractUserUpdated(r)
        oldObj == IF ~IsEmptyObj(x.before) THEN x.before
                  ELSE IF x.fid # NoFid /\ x.fid \in DOMAIN c.lp THEN c.lp[x.fid]
                  ELSE EmptySnap
        fids == <<x.fid>>
        need == Need(c.uc, fids, now)
        c1 == [c EXCEPT !.invs = Append(@, Invocation(c.uc, fids, need, now))]
    IN  IF ~x.afterEmpty THEN UUFinish(p, c, r, u, oldObj, x.after)
        ELSE IF need = <<>>
             THEN UUFinish(p, c1, r, u, oldObj, Out(c1.uc, fids)[x.fid])
             ELSE Commit(p, c1, "lookup",
                         [site |-> "uu_new", fids |-> fids, need |-> need,
                          now |-> now, u |-> u, old |-> oldObj], 0)

\* ------------------------------------------------- the handler, by stages
\* the code after `await fetchUsersByFids(...)` at the four name look-ups
AfterNames(p, c, r, site, map) ==
    CASE site = "follow" ->
            LET x == extractFollow(r)
                aUser == Name3(x.actor_username, map[x.actor_fid]["username"],
                               FidStr(x.actor_fid))
                tUser == Name3(x.target_username, map[x.target_fid]["username"],
                               FidStr(x.target_fid))
            IN  sendTG(p, c, Text(r.type, <<aUser, tUser>>, <<>>), TG_CHAT_ID_FOLLOW)
      [] site = "uu_name" ->
            LET x == extractUserUpdated(r)
            IN  UUResolve(p, c, r, Name3(Undef, map[x.fid]["username"], FidStr(x.fid)))
      [] site = "cast" ->
            LET x == extractCastCreated(r)
            IN  sendTG(p, c, Text("cast.created",
                                  <<Name3(Undef, map[x.fid]["username"], FidStr(x.fid))>>,
                                  <<>>), TG_CHAT_ID_ACTIVITY)
      [] site = "trade" ->
            LET x == extractTradeCreated(r)
            IN  sendTG(p, c, Text("trade.created",
                                  <<Name3(Undef, map[x.traderFid]["username"],
                                          FidStr(x.traderFid))>>,
                                  <<>>), TG_CHAT_ID_TRADE)

\* `await fetchUsersByFids(fids)` up to its fetch (lines 48-60)
CallNamesPrefill(p, c, r, site, fids) ==
    LET need == Need(c.uc, fids, now)
        c1 == [c EXCEPT !.invs = Append(@, Invocation(c.uc, fids, need, now)),
                        !.uc = [f \in DOMAIN c.uc \cup Range(need) |->
                                  IF f \in Range(need)
                                  THEN [snap |-> Placeholder(f), ts |-> now]
                                  ELSE c.uc[f]]]
    IN  IF need = <<>>
        THEN AfterNames(p, c1, r, site, Out(c1.uc, fids))
        ELSE Commit(p, c1, "lookup",
                    [site |-> site, fids |-> fids, need |-> need, now |-> now,
                     u |-> Undef, old |-> EmptySnap], 0)
CallNames(p, c, r, site, fids) ==
    LET need == Need(c.uc, fids, now)
        c1 == [c EXCEPT !.invs = Append(@, Invocation(c.uc, fids, need, now))]
    IN  IF need = <<>>
        THEN AfterNames(p, c1, r, site, Out(c1.uc, fids))
        ELSE Commit(p, c1, "lookup",
                    [site |-> site, fids |-> fids, need |-> need, now |-> now,
                     u |-> Undef, old |-> EmptySnap], 0)

\* lines 245-276
FollowBranchNoDiag(p, c, r) ==
    LET x == extractFollow(r)
    IN  IF x.actor_fid = NoFid \/ x.target_fid = NoFid
        THEN Commit(p, c, "done", NoLoc, 200)
        ELSE IF Falsy(x.actor_username) \/ Falsy(x.target_username)
             THEN CallNames(p, c, r, "follow", <<x.actor_fid, x.target_fid>>)
             ELSE sendTG(p, c, Text(r.type, <<x.actor_username, x.target_username>>,
                                    <<>>), TG_CHAT_ID_FOLLOW)
FollowBranch(p, c, r) ==
    LET x == extractFollow(r)
    IN  IF x.actor_fid = NoFid \/ x.target_fid = NoFid
        THEN sendTG(p, c, Text("diagnostic", <<>>, <<>>), TG_CHAT_ID_FOLLOW)
        ELSE IF Falsy(x.actor_username) \/ Falsy(x.target_username)
             THEN CallNames(p, c, r, "follow", <<x.actor_fid, x.target_fid>>)
             ELSE sendTG(p, c, Text(r.type, <<x.actor_username, x.target_username>>,
                                    <<>>), TG_CHAT_ID_FOLLOW)

\* lines 277-363
UserUpdatedBranch(p, c, r) ==
    LET x == extractUserUpdated(r)
    IN  IF Falsy(x.username) /\ x.fid # NoFid
        THEN CallNames(p, c, r, "uu_name", <<x.fid>>)
        ELSE UUResolve(p, c, r, x.username)

\* lines 364-384
CastBranch(p, c, r) ==
    LET x == extractCastCreated(r)
    IN  IF ~x.isRoot THEN Commit(p, c, "done", NoLoc, 200)
        ELSE IF Falsy(x.username) /\ x.fid # NoFid
             THEN CallNames(p, c, r, "cast", <<x.fid>>)
             ELSE sendTG(p, c, Text("cast.created", <<x.username>>, <<>>),
                         TG_CHAT_ID_ACTIVITY)

\* lines 385-434
TradeBranch(p, c, r) ==
    LET x == extractTradeCreated(r)
    IN  IF x.traderFid = NoFid THEN Commit(p, c, "done", NoLoc, 200)
        ELSE IF Falsy(x.username)
             THEN CallNames(p, c, r, "trade", <<x.traderFid>>)
             ELSE sendTG(p, c, Text("trade.created", <<x.username>>, <<>>),
                         TG_CHAT_ID_TRADE)

\* lines 245, 277, 364, 385, 436: routing on evt.type
RouteUnknownDiag(p, c, r) ==
    CASE r.type \in {"follow.created", "follow.deleted"} -> FollowBranch(p, c, r)
      [] r.type = "user.updated" -> UserUpdatedBranch(p, c, r)
      [] r.type = "cast.created" -> CastBranch(p, c, r)
      [] r.type = "trade.created" -> TradeBranch(p, c, r)
      [] OTHER -> sendTG(p, c, Text("diagnostic", <<>>, <<>>), TG_CHAT_ID_FOLLOW)
Route(p, c, r) ==
    CASE r.type \in {"follow.created", "follow.deleted"} -> FollowBranch(p, c, r)
      [] r.type = "user.updated" -> UserUpdatedBranch(p, c, r)
      [] r.type = "cast.created" -> CastBranch(p, c, r)
      [] r.type = "trade.created" -> TradeBranch(p, c, r)
      [] OTHER -> Commit(p, c, "done", NoLoc, 200)

\* ---------------------------------------------------------------- inputs
SA == Snap("bob", Undef, "a")
SB == Snap("bob", Undef, "b")
BioA == Snap(Undef, Undef, "a")
BioB == Snap(Undef, Undef, "b")
\* what the identity service may answer for a fid
ServiceProfiles(f) == IF f = 1 THEN {SA, SB} ELSE {Snap("carol", Undef, "")}
NoPaths5 == <<NoField, NoField, NoField, NoField, NoField>>
NoPaths4 == <<NoField, NoField, NoField, NoField>>
NoParents == <<Undef, Undef, Undef, Undef, Undef, Undef>>
BaseReq ==
    [raw |-> 1, sig |-> Hmac(1, 1), json |-> "obj", id |-> NoId, type |-> "other",
     actorPaths |-> NoPaths5, targetPaths |-> NoPaths4,
     actor_username |-> Undef, target_username |-> Undef,
     user |-> NoUser, dfid |-> NoField, before |-> EmptySnap, afterAlt |-> EmptySnap,
     updated_fields |-> <<>>,
     castFidPaths |-> NoPaths4, cast_username |-> Undef, parents |-> NoParents,
     channel |-> Undef,
     trader_fid |-> NoField, trader_username |-> Undef]

FollowPayloads ==
    {[BaseReq EXCEPT !.type = "follow.created", !.actorPaths = a, !.targetPaths = t,
                     !.actor_username = n[1], !.target_username = n[2]] :
        a \in {NoPaths5, <<1, NoField, NoField, NoField, NoField>>,
               <<NoField, 2, 1, NoField, NoField>>},
        t \in {NoPaths4, <<2, NoField, NoField, NoField>>},
        n \in {<<Undef, Undef>>, <<"bob", Undef>>, <<"bob", "carol">>}}
    \cup {[BaseReq EXCEPT !.type = "follow.deleted",
                          !.actorPaths = <<1, NoField, NoField, NoField, NoField>>,
                          !.targetPaths = <<2, NoField, NoField, NoField>>]}
UserUpdatedPayloads ==
    {[BaseReq EXCEPT !.type = "user.updated", !.dfid = d,
                     !.before = b, !.afterAlt = a, !.updated_fields = uf] :
        d \in {NoField, 1}, b \in {EmptySnap, SA}, a \in {EmptySnap, SA},
        uf \in {<<>>, <<"bio">>}}
    \cup {[BaseReq EXCEPT !.type = "user.updated",
                          !.user = [present |-> TRUE, fid |-> 1, snap |-> SB],
                          !.before = b, !.afterAlt = a, !.updated_fields = uf] :
            b \in {EmptySnap, SA}, a \in {EmptySnap}, uf \in {<<>>, <<"bio">>}}
    \cup {[BaseReq EXCEPT !.type = "user.updated",
                          !.user = [present |-> TRUE, fid |-> 1, snap |-> SB],
                          !.afterAlt = SA, !.dfid = 2]}
    \cup {[BaseReq EXCEPT !.type = "user.updated", !.dfid = d,
                          !.before = BioA, !.afterAlt = BioB] : d \in {NoField, 1}}
\* the six parent-cast reference fields, in the order the code reads them:
\* absent or null (Undef), an empty string, or a hash
ParentShapes ==
    {<<Undef, "0xp", Undef, Undef, Undef, Undef>>,
     <<Undef, Undef, Undef, Undef, Undef, "0xp">>,
     <<"", Undef, Undef, Undef, Undef, Undef>>,
     <<"", "0xp", Undef, Undef, Undef, Undef>>}
CastPayloads ==
    {[BaseReq EXCEPT !.type = "cast.created", !.castFidPaths = f,
                     !.cast_username = n, !.channel = ch] :
        f \in {NoPaths4, <<NoField, 1, NoField, NoField>>},
        n \in {Undef, "bob"},
        ch \in {Undef, "https://chan"}}
    \cup {[BaseReq EXCEPT !.type = "cast.created",
                          !.castFidPaths = <<1, NoField, NoField, NoField>>,
                          !.parents = ps, !.channel = ch] :
            ps \in ParentShapes, ch \in {Undef, "https://chan"}}
TradePayloads ==
    {[BaseReq EXCEPT !.type = "trade.created", !.trader_fid = f,
                     !.trader_username = n] :
        f \in {NoField, 1}, n \in {Undef, "bob"}}
OtherPayloads ==
    {BaseReq, [BaseReq EXCEPT !.json = "malformed"], [BaseReq EXCEPT !.json = "null"]}
Payloads ==
    FollowPayloads \cup UserUpdatedPayloads \cup CastPayloads \cup TradePayloads
        \cup OtherPayloads
\* the main pipeline: every payload, with and without an event id, signed
Requests == {[b EXCEPT !.id = i] : b \in Payloads, i \in {NoId, 1}}

\* the header: absent, the digest of body 1, sent with body 1 or a changed body
Envelopes == {<<1, NoSig>>, <<1, Hmac(1, 1)>>, <<2, Hmac(1, 1)>>}
AuthPayloads ==
    {b \in Payloads :
        \/ b.type = "other" /\ b.json = "obj"
        \/ b.type = "follow.created" /\ b.actorPaths[1] = 1 /\ b.targetPaths[1] = 2
              /\ b.actor_username = Undef
        \/ b.type = "trade.created" /\ b.trader_fid = 1 /\ b.trader_username = "bob"}
AuthRequests ==
    {[b EXCEPT !.raw = e[1], !.sig = e[2], !.id = i] :
        b \in AuthPayloads, e \in Envelopes, i \in {NoId} \cup EventIds}

\* filling the dedup record: events of an unknown type under the id of the
\* record's first entry and the ids that fill it and overflow it by one; and a
\* trade with no event id
FillIds == {1} \cup (Capacity - FillSlack + 1)..(Capacity + 1)
FillRequests ==
    {[BaseReq EXCEPT !.id = i] : i \in FillIds}
    \cup {[BaseReq EXCEPT !.type = "trade.created", !.trader_fid = 2]}

MainEnv == [secret |-> 1, token |-> "tok", follow |-> "F", activity |-> "A",
            trade |-> "T"]

\* the Telegram settings: each chat id absent, empty or set (lines 12-17)
ChanEnvs ==
    {[MainEnv EXCEPT !.token = t, !.follow = f, !.activity = a, !.trade = tr] :
        t \in {Undef, "tok"}, f \in {Undef, "F"},
        a \in {Undef, "", "A"}, tr \in {Undef, "", "T"}}
\* one event of each category that notifies, and a trade that looks a name up
ChanRequests ==
    {[BaseReq EXCEPT !.type = "follow.created",
                     !.actorPaths = <<1, NoField, NoField, NoField, NoField>>,
                     !.targetPaths = <<2, NoField, NoField, NoField>>,
                     !.actor_username = "bob", !.target_username = "carol"],
     [BaseReq EXCEPT !.type = "follow.deleted"],
     [BaseReq EXCEPT !.type = "user.updated",
                     !.user = [present |-> TRUE, fid |-> 1, snap |-> SB]],
     [BaseReq EXCEPT !.type = "cast.created",
                     !.castFidPaths = <<1, NoField, NoField, NoField>>,
                     !.cast_username = "bob"],
     [BaseReq EXCEPT !.type = "trade.created", !.trader_fid = 1,
                     !.trader_username = "bob"],
     [BaseReq EXCEPT !.type = "trade.created", !.trader_fid = 1]}

\* ------------------------------------------------------------------ Init
Start(envs, filled, t0) ==
    /\ env \in envs
    /\ base = filled
    /\ seen = [i \in 1..filled |-> i]
    /\ inserted = <<>>
    /\ userCache = <<>>
    /\ lastProfile = <<>>
    /\ now = t0
    /\ pc = [p \in Procs |-> "idle"]
    /\ req = [p \in Procs |-> BaseReq]
    /\ loc = [p \in Procs |-> NoLoc]
    /\ resp = [p \in Procs |-> 0]
    /\ sends = [p \in Procs |-> <<>>]
    /\ posts = [p \in Procs |-> <<>>]
    /\ invs = [p \in Procs |-> <<>>]
    /\ resolved = [p \in Procs |-> NoRes]
    /\ verified = [p \in Procs |-> TRUE]
    /\ dedup = [p \in Procs |-> "none"]

\* ---------------------------------------------------------------- actions
Fresh == [uc |-> userCache, lp |-> lastProfile, sends |-> <<>>, posts |-> <<>>,
          invs |-> <<>>, res |-> NoRes]

\* lines 437-440: catch (e) { res.status(500).send("error") }
CatchAll200(p, c) == Commit(p, c, "done", NoLoc, 200)
CatchAll(p, c) == Commit(p, c, "done", NoLoc, 500)

\* app.post(WEBHOOK_PATH, ...) from the request's arrival to its first await.
\* A body that JSON.parse rejects, and the body `null` (evt.id then throws),
\* both end in the catch-all.
ReceiveDeferredRecord(p, r) ==
    /\ pc[p] = "idle"
    /\ req' = [req EXCEPT ![p] = r]
    /\ UNCHANGED <<env, base, now>>
    /\ LET ok == verifySignature(NEYNAR_SECRET, r)
           busy == {req[q].id : q \in {q \in Procs : pc[q] \in {"lookup", "send"}}}
           sb == [ret |-> seenBefore(SelectSeq(seen, LAMBDA e : e \notin busy), r.id).ret,
                  seen |-> seenBefore(seen, r.id).seen]
       IN  /\ verified' = [verified EXCEPT ![p] = ok]
           /\ IF ~ok
              THEN /\ Commit(p, Fresh, "done", NoLoc, 401)
                   /\ dedup' = [dedup EXCEPT ![p] = "none"]
                   /\ UNCHANGED <<seen, inserted>>
              ELSE IF r.json # "obj"
              THEN /\ CatchAll(p, Fresh)
                   /\ dedup' = [dedup EXCEPT ![p] = "none"]
                   /\ UNCHANGED <<seen, inserted>>
              ELSE /\ seen' = sb.seen
                   /\ inserted' = IF r.id # NoId /\ ~sb.ret
                                  THEN Append(inserted, r.id) ELSE inserted
                   /\ dedup' = [dedup EXCEPT ![p] = IF sb.ret THEN "seen" ELSE "new"]
                   /\ IF sb.ret THEN Commit(p, Fresh, "done", NoLoc, 200)
                      ELSE Route(p, Fresh, r)
Receive(p, r) ==
    /\ pc[p] = "idle"
    /\ req' = [req EXCEPT ![p] = r]
    /\ UNCHANGED <<env, base, now>>
    /\ LET ok == verifySignature(NEYNAR_SECRET, r)
           sb == seenBefore(seen, r.id)
       IN  /\ verified' = [verified EXCEPT ![p] = ok]
           /\ IF ~ok
              THEN /\ Commit(p, Fresh, "done", NoLoc, 401)
                   /\ dedup' = [dedup EXCEPT ![p] = "none"]
                   /\ UNCHANGED <<seen, inserted>>
              ELSE IF r.json # "obj"
              THEN /\ CatchAll(p, Fresh)
                   /\ dedup' = [dedup EXCEPT ![p] = "none"]
                   /\ UNCHANGED <<seen, inserted>>
              ELSE /\ seen' = sb.seen
                   /\ inserted' = IF r.id # NoId /\ ~sb.ret
                                  THEN Append(inserted, r.id) ELSE inserted
                   /\ dedup' = [dedup EXCEPT ![p] = IF sb.ret THEN "seen" ELSE "new"]
                   /\ IF sb.ret THEN Commit(p, Fresh, "done", NoLoc, 200)
                      ELSE Route(p, Fresh, r)

\* the identity service answers (or fails) and the handler runs on; an answer
\* holds any of the ids asked for
AllProfiles == UNION {ServiceProfiles(f) : f \in RealFids}
LookupResults(need) ==
    {[ok |-> FALSE, kind |-> k, users |-> <<>>] : k \in {"throw", "notok"}}
    \cup {[ok |-> TRUE, kind |-> "ok", users |-> us] :
            us \in UNION {{f \in [S -> AllProfiles] :
                              \A x \in S : f[x] \in ServiceProfiles(x)} :
                          S \in SUBSET (Range(need) \cap RealFids)}}
MarkLast(s, o) == [s EXCEPT ![Len(s)].outcome = o]
LookupReturnSurfaces(p) ==
    /\ pc[p] = "lookup"
    /\ UNCHANGED <<env, base, now, seen, inserted, req, verified, dedup>>
    /\ \E res \in LookupResults(loc[p].need) :
       LET l == loc[p]
           uc1 == IF res.ok THEN Store(userCache, res.users, l.now) ELSE userCache
           map == Out(uc1, l.fids)
           c == [Ctx(p) EXCEPT !.uc = uc1,
                               !.invs = Resume(@, IF res.ok THEN "ok" ELSE "failed", map)]
       IN  IF ~res.ok THEN Commit(p, c, "done", NoLoc, 500)
           ELSE IF l.site = "uu_new"
           THEN UUFinish(p, c, req[p], l.u, l.old, map[l.fids[1]])
           ELSE AfterNames(p, c, req[p], l.site, map)
LookupReturnDropsExpired(p) ==
    /\ pc[p] = "lookup"
    /\ UNCHANGED <<env, base, now, seen, inserted, req, verified, dedup>>
    /\ \E res \in LookupResults(loc[p].need) :
       LET l == loc[p]
           kept == [f \in DOMAIN userCache \ Range(l.need) |-> userCache[f]]
           uc1 == IF res.ok THEN Store(kept, res.users, l.now) ELSE kept
           map == Out(uc1, l.fids)
           c == [Ctx(p) EXCEPT !.uc = uc1,
                               !.invs = Resume(@, IF res.ok THEN "ok" ELSE "failed", map)]
       IN  IF l.site = "uu_new"
           THEN UUFinish(p, c, req[p], l.u, l.old, map[l.fids[1]])
           ELSE AfterNames(p, c, req[p], l.site, map)
LookupReturn(p) ==
    /\ pc[p] = "lookup"
    /\ UNCHANGED <<env, base, now, seen, inserted, req, verified, dedup>>
    /\ \E res \in LookupResults(loc[p].need) :
       LET l == loc[p]
           uc1 == IF res.ok THEN Store(userCache, res.users, l.now) ELSE userCache
           map == Out(uc1, l.fids)
           c == [Ctx(p) EXCEPT !.uc = uc1,
                               !.invs = Resume(@, IF res.ok THEN "ok" ELSE "failed", map)]
       IN  IF l.site = "uu_new"
           THEN UUFinish(p, c, req[p], l.u, l.old, map[l.fids[1]])
           ELSE AfterNames(p, c, req[p], l.site, map)

\* Telegram answers (or fails): sendTG swallows it and the handler sends "ok"
SendReturn(p, outcome) ==
    /\ pc[p] = "send"
    /\ posts' = [posts EXCEPT ![p] = MarkLast(@, IF outcome = "ok" THEN "ok" ELSE "failed")]
    /\ pc' = [pc EXCEPT ![p] = "done"]
    /\ resp' = [resp EXCEPT ![p] = 200]
    /\ UNCHANGED <<env, base, now, seen, inserted, req, verified, dedup, userCache,
                   lastProfile, loc, sends, invs, resolved>>

\* the response has gone out; the request's record is dropped
Close(p) ==
    /\ pc[p] = "done"
    /\ pc' = [pc EXCEPT ![p] = "idle"]
    /\ req' = [req EXCEPT ![p] = BaseReq]
    /\ resp' = [resp EXCEPT ![p] = 0]
    /\ sends' = [sends EXCEPT ![p] = <<>>]
    /\ posts' = [posts EXCEPT ![p] = <<>>]
    /\ invs' = [invs EXCEPT ![p] = <<>>]
    /\ resolved' = [resolved EXCEPT ![p] = NoRes]
    /\ verified' = [verified EXCEPT ![p] = TRUE]
    /\ dedup' = [dedup EXCEPT ![p] = "none"]
    /\ UNCHANGED <<env, base, now, seen, inserted, userCache, lastProfile, loc>>

\* time passes
TickMs == CACHE_TTL_MS \div 2
Tick ==
    /\ now < MaxTicks * TickMs
    /\ now' = now + TickMs
    /\ UNCHANGED <<env, base, seen, inserted, userCache, lastProfile, pc, req, loc, resp,
                   sends, posts, invs, resolved, verified, dedup>>

Step(P, R) ==
    \/ \E p \in P, r \in R : Receive(p, r)
    \/ \E p \in P : LookupReturn(p)
    \/ \E p \in P, o \in {"ok", "notok", "throw"} : SendReturn(p, o)
    \/ \E p \in P : Close(p)
    \/ Tick

\* the state after start-up: nothing seen, nothing cached
Init == Start({MainEnv}, 0, 0)
Next == Step({1}, Requests)
Spec == Init /\ [][Next]_vars

\* with and without a secret, under every envelope
InitAuth == Start({[MainEnv EXCEPT !.secret = s] : s \in {NoSecret} \cup Secrets}, 0, 0)
NextAuth == Step({1}, AuthRequests)
SpecAuth == InitAuth /\ [][NextAuth]_vars

\* after Capacity - FillSlack events of an unknown type, ids 1, 2, 3, ...
InitFill == Start({MainEnv}, Capacity - FillSlack, 0)
NextFill == Step({1}, FillRequests)
SpecFill == InitFill /\ [][NextFill]_vars

\* handlers in flight together, each looking up the name of fid 1; the clock
\* starts one tick before its last value
ConcRequests == {[BaseReq EXCEPT !.type = "trade.created", !.trader_fid = 1]}
InitConc == Start({MainEnv}, 0, (MaxTicks - 1) * TickMs)
NextConc == Step(Procs, ConcRequests)
SpecConc == InitConc /\ [][NextConc]_vars

\* deliveries of two events in flight together: every request carries the
\* first or the last event id
DupRequests ==
    {[BaseReq EXCEPT !.type = "trade.created", !.trader_fid = 1, !.id = i] :
        i \in {1, MaxEventId}}
InitDup == Start({MainEnv}, 0, (MaxTicks - 1) * TickMs)
NextDup == Step(Procs, DupRequests)
SpecDup == InitDup /\ [][NextDup]_vars

\* under every Telegram setting
InitChan == Start(ChanEnvs, 0, 0)
NextChan == Step({1}, ChanRequests)
SpecChan == InitChan /\ [][NextChan]_vars

\* ================================================================ claims
Done(p) == pc[p] = "done"
InFlight(p) == pc[p] # "idle"
BadOrMissing(r) == r.sig = NoSig \/ r.sig # Hmac(NEYNAR_SECRET, r.raw)
Kinds(p) == [i \in 1..Len(sends[p]) |-> sends[p][i].text.kind]

\* C1: a call seenBefore(e) with a non-empty e answers "seen" exactly when e is
\* in the record and leaves e in the record, so the call after a first call
\* answers "seen"; a delivery whose id is answered "seen" makes no sendTG call,
\* no lookup, and is answered 200 "ok" at once.
C1_Step ==
    \A p \in Procs :
        (pc[p] = "idle" /\ pc'[p] # "idle" /\ dedup'[p] # "none"
            /\ req'[p].id # NoId) =>
            /\ dedup'[p] = (IF InSeq(seen, req'[p].id) THEN "seen" ELSE "new")
            /\ InSeq(seen', req'[p].id)
            /\ dedup'[p] = "seen" =>
                  /\ pc'[p] = "done" /\ resp'[p] = 200
                  /\ sends'[p] = <<>> /\ posts'[p] = <<>> /\ invs'[p] = <<>>
C1_SecondDeliveryDropped == [][C1_Step]_vars
C1_Witness ==
    \E p \in Procs :
        /\ Done(p) /\ dedup[p] = "seen" /\ req[p].type = "follow.created"
        /\ extractFollow(req[p]).actor_fid # NoFid
        /\ extractFollow(req[p]).target_fid # NoFid
        /\ resp[p] = 200 /\ sends[p] = <<>>

\* C2 (as claimed): with a secret configured, a request whose signature is bad
\* or missing is answered 401 and nothing else happens to it.
C2_Claim ==
    \A p \in Procs :
        (InFlight(p) /\ NEYNAR_SECRET # NoSecret /\ BadOrMissing(req[p])) =>
            /\ Done(p) /\ resp[p] = 401
            /\ dedup[p] = "none" /\ invs[p] = <<>> /\ sends[p] = <<>>

\* C3 (as claimed): a body that fails JSON parsing is answered 200 "ok".
C3_Claim ==
    \A p \in Procs :
        (Done(p) /\ verified[p] /\ req[p].json = "malformed") => resp[p] = 200
\* C3 (amended): a verified request whose body fails JSON parsing is answered
\* 500 "error" by the handler's catch-all; it dispatches nothing, looks nothing
\* up and the dedup record is left as it was.
C3_Step ==
    \A p \in Procs :
        (pc[p] = "idle" /\ pc'[p] # "idle" /\ verified'[p]
            /\ req'[p].json = "malformed") =>
            /\ pc'[p] = "done" /\ resp'[p] = 500
            /\ sends'[p] = <<>> /\ posts'[p] = <<>> /\ invs'[p] = <<>>
            /\ dedup'[p] = "none" /\ seen' = seen
C3_ParseFailureIs500 == [][C3_Step]_vars
C3_Witness ==
    \E p \in Procs :
        /\ Done(p) /\ verified[p] /\ req[p].json = "malformed" /\ resp[p] = 500
        /\ req[p].id # NoId /\ ~InSeq(seen, req[p].id)

\* the identifier each recognised type needs cannot be extracted
Unextractable(r) ==
    CASE r.type \in {"follow.created", "follow.deleted"} ->
            extractFollow(r).actor_fid = NoFid \/ extractFollow(r).target_fid = NoFid
      [] r.type = "user.updated" -> extractUserUpdated(r).fid = NoFid
      [] r.type = "cast.created" ->
            extractCastCreated(r).fid = NoFid /\ extractCastCreated(r).isRoot
      [] r.type = "trade.created" -> extractTradeCreated(r).traderFid = NoFid
      [] OTHER -> FALSE
Routed(p) == InFlight(p) /\ dedup[p] = "new"

\* C4 (as claimed): for every recognised type, an event whose identifier
\* cannot be extracted is skipped with exactly one dispatch, the diagnostic,
\* and no lookup, and is answered 200 "ok".
C4_Claim ==
    \A p \in Procs :
        (Done(p) /\ dedup[p] = "new" /\ Unextractable(req[p])) =>
            /\ resp[p] = 200 /\ Kinds(p) = <<"diagnostic">> /\ invs[p] = <<>>
\* C4 (amended): such an event is always answered 200 "ok", but only a follow
\* event is skipped with the diagnostic (exactly one dispatch, no lookup);
\* trade.created is skipped silently (no dispatch, no lookup); user.updated and
\* a root cast.created are not skipped: each dispatches its normal
\* notification, and user.updated looks the id up when the payload carries no
\* non-empty `after`.
C4_UnextractableId ==
    \A p \in Procs :
        (Routed(p) /\ Unextractable(req[p])) =>
            /\ Done(p) => resp[p] = 200
            /\ resp[p] \in {0, 200}
            /\ req[p].type \in {"follow.created", "follow.deleted"} =>
                  Kinds(p) = <<"diagnostic">> /\ invs[p] = <<>>
            /\ req[p].type = "trade.created" =>
                  Done(p) /\ sends[p] = <<>> /\ invs[p] = <<>>
            /\ req[p].type = "cast.created" =>
                  Kinds(p) = <<"cast.created">> /\ invs[p] = <<>>
            /\ req[p].type = "user.updated" =>
                  /\ Done(p) \/ pc[p] = "send" => Kinds(p) = <<"user.updated">>
                  /\ pc[p] = "lookup" => sends[p] = <<>>
                  /\ Len(invs[p]) =
                        (IF extractUserUpdated(req[p]).afterEmpty THEN 1 ELSE 0)
C4_Witness ==
    \E p \in Procs :
        /\ Done(p) /\ dedup[p] = "new" /\ Unextractable(req[p])
        /\ req[p].type = "follow.created" /\ resp[p] = 200
        /\ Kinds(p) = <<"diagnostic">>
        /\ posts[p] # <<>>

\* C7: without a secret every request verifies, whatever its body and header;
\* with a secret and a header, the request verifies exactly when the header is
\* the HMAC of the raw body under the secret; a request that does not verify
\* is answered 401.
C7_Verification ==
    \A p \in Procs :
        InFlight(p) =>
            /\ NEYNAR_SECRET = NoSecret => verified[p]
            /\ (NEYNAR_SECRET # NoSecret /\ req[p].sig # NoSig) =>
                  (verified[p] <=> req[p].sig = Hmac(NEYNAR_SECRET, req[p].raw))
            /\ ~verified[p] => Done(p) /\ resp[p] = 401 /\ dedup[p] = "none"
            /\ verified[p] => resp[p] # 401
C7_Witness ==
    \E p \in Procs :
        /\ Done(p) /\ NEYNAR_SECRET # NoSecret /\ req[p].sig # NoSig
        /\ req[p].sig # Hmac(NEYNAR_SECRET, req[p].raw)
        /\ ~verified[p] /\ resp[p] = 401

\* C8: an event of no recognised type, once past verification, parsing and the
\* dedup check, is dropped: no lookup, no sendTG call, no error, 200 "ok".
C8_UnknownTypeDropped ==
    \A p \in Procs :
        (Routed(p) /\ req[p].type = "other") =>
            /\ Done(p) /\ resp[p] = 200
            /\ sends[p] = <<>> /\ posts[p] = <<>> /\ invs[p] = <<>>
C8_Witness ==
    \E p \in Procs :
        /\ Done(p) /\ dedup[p] = "new" /\ req[p].type = "other"
        /\ req[p].id # NoId /\ resp[p] = 200 /\ sends[p] = <<>>

\* every id seenBefore ever added, oldest first
AllInserted == [i \in 1..base |-> i] \o inserted

\* C5: once more than Capacity ids have been added, the record is exactly the
\* last Capacity of them, in the order they were added (the oldest are the
\* ones evicted).
C5_FifoEviction ==
    LET n == Len(AllInserted)
    IN  n > Capacity => seen = SubSeq(AllInserted, n - Capacity + 1, n)
C5_Witness ==
    /\ Len(AllInserted) = Capacity + 1
    /\ ~InSeq(seen, AllInserted[1])
    /\ InSeq(seen, AllInserted[Capacity + 1])
    /\ Len(seen) = Capacity

\* C6: the record never holds more than Capacity ids.
C6_RecordBounded == Len(seen) <= Capacity
C6_Witness == Len(seen) = Capacity /\ Len(AllInserted) > Capacity

\* C9: an invocation of fetchUsersByFids makes at most one lookup call; an id
\* whose entry is younger than the TTL is not in it; and when some requested id
\* has no entry or one older than the TTL, there is exactly one call, for
\* exactly those ids.
C9_OneBatchedLookup ==
    \A p \in Procs : \A i \in 1..Len(invs[p]) :
        LET v == invs[p][i]
            asked == Range(v.fids)
            young == {f \in asked : v.ages[f] >= 0 /\ v.ages[f] < CACHE_TTL_MS}
            stale == {f \in asked : v.ages[f] = -1 \/ v.ages[f] > CACHE_TTL_MS}
        IN  /\ v.calls <= 1
            /\ Range(v.need) \cap young = {}
            /\ stale # {} => v.calls = 1 /\ Range(v.need) = stale
            /\ v.calls = 1 <=> (v.outcome # "nocall")
            /\ v.calls = 0 => v.need = <<>>
            /\ (i < Len(invs[p]) \/ pc[p] # "lookup") => v.outcome # "pending"
            /\ pc[p] = "lookup" /\ i = Len(invs[p]) =>
                  v.outcome = "pending" /\ loc[p].need = v.need
C9_Witness ==
    \E p \in Procs : \E i \in 1..Len(invs[p]) :
        LET v == invs[p][i]
        IN  /\ Len(v.fids) = 2
            /\ v.ages[v.fids[1]] > 0 /\ v.ages[v.fids[1]] < CACHE_TTL_MS
            /\ v.ages[v.fids[2]] > CACHE_TTL_MS
            /\ v.need = <<v.fids[2]>>
            /\ v.outcome = "ok"

LookupFailed(p) == \E i \in 1..Len(invs[p]) : invs[p][i].outcome = "failed"
DeliveryFailed(p) == \E i \in 1..Len(posts[p]) : posts[p][i].outcome = "failed"
\* the name a look-up that found nothing must have produced
PlaceholderName(fid) == "fid:" \o FidStr(fid)
NamesArePlaceholders(p) ==
    LET r == req[p]
        names == sends[p][1].text.names
        Holds(given, fid, name) ==
            (Falsy(given) /\ fid # NoFid /\ fid \notin DOMAIN userCache)
                => name = PlaceholderName(fid)
    IN  CASE r.type \in {"follow.created", "follow.deleted"} ->
                /\ Holds(extractFollow(r).actor_username,
                         extractFollow(r).actor_fid, names[1])
                /\ Holds(extractFollow(r).target_username,
                         extractFollow(r).target_fid, names[2])
          [] r.type = "user.updated" ->
                Holds(extractUserUpdated(r).username, extractUserUpdated(r).fid,
                      names[1])
          [] r.type = "cast.created" ->
                Holds(extractCastCreated(r).username, extractCastCreated(r).fid,
                      names[1])
          [] r.type = "trade.created" ->
                Holds(extractTradeCreated(r).username,
                      extractTradeCreated(r).traderFid, names[1])
          [] OTHER -> FALSE

\* C10: a failed lookup or a failed delivery never reaches the caller: after
\* a failed lookup the handler still makes its sendTG call, with the
\* placeholder name for every id it has no cache entry for, and after a failed
\* delivery it still completes; the answer is 200 "ok", and a parsed request
\* is never answered 500.
C10_CollaboratorFailureAbsorbed ==
    \A p \in Procs :
        /\ resp[p] = 500 => req[p].json # "obj"
        /\ (InFlight(p) /\ (LookupFailed(p) \/ DeliveryFailed(p))) =>
              /\ resp[p] \in {0, 200}
              /\ Done(p) => resp[p] = 200
        /\ (LookupFailed(p) /\ pc[p] \in {"send", "done"}) =>
              /\ Len(sends[p]) = 1
              /\ sends[p][1].text.kind = req[p].type
              /\ NamesArePlaceholders(p)
C10_Witness ==
    \E p \in Procs :
        /\ Done(p) /\ LookupFailed(p) /\ DeliveryFailed(p) /\ resp[p] = 200
        /\ req[p].type = "follow.created"
        /\ sends[p][1].text.names = <<PlaceholderName(1), PlaceholderName(2)>>

\* C11: the step in which a user.updated handler for fid settles its snapshots
\* leaves lastProfile[fid] equal to its newObj, whatever lines the diff made;
\* lastProfile changes in no other step; and a handler whose payload has no
\* `before` takes the lastProfile entry of its fid, when there is one, as oldObj.
Settles(p) == ~resolved[p].has /\ resolved'[p].has
C11_Step ==
    /\ \A p \in Procs :
          Settles(p) =>
            LET x == extractUserUpdated(req'[p])
            IN  /\ x.fid # NoFid =>
                      /\ x.fid \in DOMAIN lastProfile'
                      /\ lastProfile'[x.fid] = resolved'[p].new
                /\ (x.fid # NoFid /\ IsEmptyObj(x.before)
                        /\ x.fid \in DOMAIN lastProfile) =>
                      resolved'[p].old = lastProfile[x.fid]
    /\ lastProfile' # lastProfile => \E p \in Procs : Settles(p)
C11_SnapshotRemembered == [][C11_Step]_vars
C11_Witness ==
    \E p \in Procs :
        /\ Done(p) /\ resolved[p].has
        /\ IsEmptyObj(req[p].before)
        /\ resolved[p].old # EmptySnap
        /\ resolved[p].lines = <<GenericLine>>
        /\ extractUserUpdated(req[p]).fid \in DOMAIN lastProfile
        /\ lastProfile[extractUserUpdated(req[p]).fid] = resolved[p].new

\* C12 (as stated): when oldObj and newObj agree on every canonical field the
\* diff is the generic line alone.
SameFields(p) ==
    resolved[p].has /\ \A k \in Keys : resolved[p].old[k] = resolved[p].new[k]
FormsOf(lines) == {lines[i].form : i \in 1..Len(lines)}
C12_Claim ==
    \A p \in Procs : SameFields(p) => resolved[p].lines = <<GenericLine>>
\* C12: when oldObj and newObj agree on every canonical field the diff holds no
\* change line; it is the generic line alone when the payload lists no updated
\* fields, and otherwise one current-value line per listed field, in order.
C12_EqualSnapshots ==
    \A p \in Procs :
        SameFields(p) =>
            LET uf == extractUserUpdated(req[p]).updatedFields
                lines == resolved[p].lines
            IN  /\ "change" \notin FormsOf(lines)
                /\ uf = <<>> => lines = <<GenericLine>>
                /\ uf # <<>> =>
                      /\ Len(lines) = Len(uf)
                      /\ \A i \in 1..Len(uf) :
                            /\ lines[i].form = "current"
                            /\ lines[i].key = LabelUpper(uf[i])
                            /\ lines[i].new = IF resolved[p].new[uf[i]] = Undef
                                              THEN "(empty)"
                                              ELSE resolved[p].new[uf[i]]
C12_Witness ==
    \E p \in Procs :
        /\ Done(p) /\ SameFields(p)
        /\ resolved[p].new # EmptySnap
        /\ extractUserUpdated(req[p]).updatedFields = <<>>
        /\ sends[p][1].text.lines = <<GenericLine>>

\* C13: the diff holds exactly one change line "FIELD: old -> new" for each
\* canonical field whose old value differs from its new value, an absent value
\* shown as "(empty)", and no change line for any other field; before {bio: "a"}
\* with after {bio: "b"} gives the single line "BIO: a -> b".
ChangeLine(p, k) ==
    [form |-> "change", key |-> LabelSpaced(k),
     old |-> Render(resolved[p].old[k]), new |-> Render(resolved[p].new[k])]
C13_OneLinePerChangedField ==
    \A p \in Procs :
        resolved[p].has =>
            LET lines == resolved[p].lines
                chg == SelectSeq(lines, LAMBDA l : l.form = "change")
                differ == {k \in Keys : resolved[p].old[k] # resolved[p].new[k]}
            IN  /\ Len(chg) = Cardinality(differ)
                /\ \A k \in differ :
                      Cardinality({i \in 1..Len(chg) : chg[i] = ChangeLine(p, k)}) = 1
                /\ \A k \in Keys \ differ :
                      \A i \in 1..Len(chg) : chg[i].key # LabelSpaced(k)
                /\ (req[p].before = BioA /\ req[p].afterAlt = BioB
                        /\ ~req[p].user.present) =>
                      lines = <<[form |-> "change", key |-> "BIO",
                                 old |-> "a", new |-> "b"]>>
C13_Witness ==
    \E p \in Procs :
        /\ Done(p) /\ resolved[p].has
        /\ req[p].before = BioA /\ req[p].afterAlt = BioB
        /\ sends[p][1].text.lines =
              <<[form |-> "change", key |-> "BIO", old |-> "a", new |-> "b"]>>

\* C14 (as stated): a cast.created payload is root exactly when none of the six
\* parent-cast reference fields holds a reference, whatever its channel
\* reference; a payload with a parent reference in any of them is answered
\* 200 "ok" with no lookup and no sendTG call.
HasParent(r) == \E i \in 1..Len(r.parents) : ~Falsy(r.parents[i])
C14_Claim ==
    \A p \in Procs :
        (Routed(p) /\ req[p].type = "cast.created") =>
            /\ extractCastCreated(req[p]).isRoot = ~HasParent(req[p])
            /\ HasParent(req[p]) =>
                  /\ Done(p) /\ resp[p] = 200
                  /\ sends[p] = <<>> /\ posts[p] = <<>> /\ invs[p] = <<>>

\* C15 (as stated): every sendTG call goes to the chat of its category: follow
\* events and diagnostics to the follow chat, user.updated and cast.created to
\* the activity chat, trade.created to the trade chat; an activity or trade chat
\* id that is absent or empty is replaced by the follow chat id.
OrFollow(v) == IF Falsy(v) THEN env.follow ELSE v
ClaimedChat(kind) ==
    CASE kind \in {"user.updated", "cast.created"} -> OrFollow(env.activity)
      [] kind = "trade.created" -> OrFollow(env.trade)
      [] OTHER -> env.follow
SameChat(a, b) == a = b \/ (Falsy(a) /\ Falsy(b))
C15_Claim ==
    \A p \in Procs : \A i \in 1..Len(sends[p]) :
        SameChat(sends[p][i].chat, ClaimedChat(sends[p][i].text.kind))

\* C16: a sendTG call whose chat id is absent or empty makes no Telegram
\* request and raises nothing: the handler goes on to answer 200 "ok".
C16_NoChatNoDelivery ==
    \A p \in Procs : \A i \in 1..Len(sends[p]) :
        Falsy(sends[p][i].chat) =>
            /\ posts[p] = <<>>
            /\ Done(p) /\ resp[p] = 200
C16_Witness ==
    \E p \in Procs :
        /\ Done(p) /\ resp[p] = 200
        /\ ~Falsy(TG_TOKEN)
        /\ Len(sends[p]) = 1 /\ Falsy(sends[p][1].chat)
        /\ posts[p] = <<>>

\* C17: a seenBefore call with an empty id answers "not seen" and leaves the
\* record as it was; a call with a recorded id answers "seen" and leaves the
\* record, its order included, as it was (the id keeps its place in the
\* eviction order); the record changes only in a call with a non-empty id that
\* is not yet recorded.
Calls(p) == pc[p] = "idle" /\ pc'[p] # "idle" /\ dedup'[p] # "none"
C17_Step ==
    /\ \A p \in Procs :
          Calls(p) =>
            /\ req'[p].id = NoId => dedup'[p] = "new" /\ seen' = seen
            /\ InSeq(seen, req'[p].id) => dedup'[p] = "seen" /\ seen' = seen
            /\ seen' # seen => req'[p].id # NoId /\ ~InSeq(seen, req'[p].id)
    /\ seen' # seen => \E p \in Procs : Calls(p)
C17_RecordFrame == [][C17_Step]_vars
C17_Witness ==
    \E p \in Procs :
        /\ Done(p) /\ dedup[p] = "seen" /\ req[p].id = 1
        /\ Len(seen) = Capacity /\ seen[1] = 1

\* C18 (as stated): oldObj is the payload's `before` when that is non-empty and
\* newObj is the payload's `after` when that is non-empty, in which case the
\* handler issues no lookup.
C18_Claim ==
    \A p \in Procs :
        resolved[p].has =>
            LET x == extractUserUpdated(req[p])
            IN  /\ ~IsEmptyObj(x.before) => resolved[p].old = x.before
                /\ ~x.afterEmpty => resolved[p].new = x.after /\ invs[p] = <<>>
\* C18: oldObj is the payload's `before` when that is non-empty, whatever
\* lastProfile holds, else the lastProfile entry of the fid if there is one,
\* else nothing; newObj is the payload's `after` when that is non-empty, and no
\* lookup is made for it, else what fetchUsersByFids returns for the fid. The
\* only other lookup is the one for the display name, made when the payload
\* has no username and the fid is known.
NameLookups(x) == IF Falsy(x.username) /\ x.fid # NoFid THEN 1 ELSE 0
C18_Step ==
    \A p \in Procs :
        Settles(p) =>
            LET x == extractUserUpdated(req'[p])
                r == resolved'[p]
            IN  /\ r.old = IF ~IsEmptyObj(x.before) THEN x.before
                            ELSE IF x.fid # NoFid /\ x.fid \in DOMAIN lastProfile
                                 THEN lastProfile[x.fid]
                            ELSE EmptySnap
                /\ ~x.afterEmpty =>
                      /\ r.new = x.after
                      /\ Len(invs'[p]) = NameLookups(x)
                /\ x.afterEmpty =>
                      /\ Len(invs'[p]) = NameLookups(x) + 1
                      /\ invs'[p][Len(invs'[p])].fids = <<x.fid>>
                      /\ r.new = invs'[p][Len(invs'[p])].out[x.fid]
C18_Precedence == [][C18_Step]_vars
C18_Witness ==
    \E p \in Procs :
        /\ Done(p) /\ resolved[p].has
        /\ ~IsEmptyObj(req[p].before) /\ resolved[p].old = req[p].before
        /\ ~extractUserUpdated(req[p]).afterEmpty
        /\ resolved[p].new = extractUserUpdated(req[p]).after
        /\ resolved[p].new # resolved[p].old
        /\ Len(invs[p]) = 1

\* C19: when the bulk lookup fails, fetchUsersByFids raises nothing (the handler
\* runs on) and stores no cache entry; in its result every requested fid that
\* has no cache entry, after a failure or after an answer that leaves the fid
\* out, is the placeholder whose username and display_name are "fid:<fid>".
Resumes(p) == pc[p] = "lookup" /\ invs'[p][Len(invs[p])].outcome # "pending"
C19_Step ==
    \A p \in Procs :
        Resumes(p) =>
            LET inv == invs'[p][Len(invs[p])]
            IN  /\ inv.outcome \in {"ok", "failed"}
                /\ pc'[p] \in {"lookup", "send", "done"}
                /\ resp'[p] \in {0, 200}
                /\ inv.outcome = "failed" => userCache' = userCache
                /\ DOMAIN inv.out = Range(inv.fids)
                /\ \A f \in Range(inv.fids) :
                      f \notin DOMAIN userCache' =>
                          /\ inv.out[f]["username"] = PlaceholderName(f)
                          /\ inv.out[f]["display_name"] = PlaceholderName(f)
C19_FailedLookupGivesPlaceholders == [][C19_Step]_vars
C19_Witness ==
    \E p \in Procs :
        /\ Done(p) /\ resp[p] = 200
        /\ \E k \in 1..Len(invs[p]) :
              /\ invs[p][k].outcome = "failed"
              /\ \E f \in Range(invs[p][k].fids) :
                    /\ f \notin DOMAIN userCache
                    /\ invs[p][k].out[f]["username"] = PlaceholderName(f)

\* C20: with handlers in flight together, a cache entry is written only in the
\* step in which an invocation that asked for the fid receives its answer; an
\* invocation that issued a lookup has no result while the lookup is pending;
\* and a result, in the step it is built, gives for every fid the entry the
\* cache then holds, or the placeholder when it holds none.
Builds(p, k) ==
    /\ k \in 1..Len(invs'[p])
    /\ invs'[p][k].outcome # "pending"
    /\ k > Len(invs[p]) \/ invs[p][k].outcome = "pending"
C20_Step ==
    /\ \A f \in DOMAIN userCache : f \in DOMAIN userCache'
    /\ \A f \in DOMAIN userCache' :
          (f \notin DOMAIN userCache \/ userCache'[f] # userCache[f]) =>
              \E p \in Procs :
                  /\ Resumes(p)
                  /\ invs'[p][Len(invs[p])].outcome = "ok"
                  /\ f \in Range(loc[p].need)
                  /\ userCache'[f].ts = loc[p].now
    /\ \A p \in Procs : \A k \in 1..Len(invs'[p]) :
          /\ invs'[p][k].outcome = "pending" => invs'[p][k].out = NotBuilt
          /\ Builds(p, k) =>
                \A f \in Range(invs'[p][k].fids) :
                    invs'[p][k].out[f] = IF f \in DOMAIN userCache'
                                         THEN userCache'[f].snap
                                         ELSE Placeholder(f)
C20_OnlyCompletedLookups == [][C20_Step]_vars
C20_Witness ==
    \E p, q \in Procs :
        /\ p # q
        /\ pc[q] = "lookup" /\ 1 \in Range(loc[q].need)
        /\ invs[q][Len(invs[q])].out = NotBuilt
        /\ Done(p) /\ 1 \in DOMAIN userCache
        /\ \E k \in 1..Len(invs[p]) :
              /\ invs[p][k].outcome = "ok"
              /\ invs[p][k].out[1] = userCache[1].snap

\* C21: with deliveries in flight together, seenBefore tests and records a
\* non-empty id in one step, the handler's first, before any lookup or sendTG
\* call; so of the deliveries of one id at most one is answered "not seen",
\* over the whole run and among those in flight, and only that one makes a
\* lookup or a sendTG call.
Passed(p) == pc'[p] # "idle" /\ dedup'[p] = "new" /\ req'[p].id # NoId
C21_Step ==
    /\ \A p \in Procs :
          (Calls(p) /\ req'[p].id # NoId) =>
            /\ invs[p] = <<>> /\ sends[p] = <<>> /\ posts[p] = <<>>
            /\ dedup'[p] = (IF InSeq(seen, req'[p].id) THEN "seen" ELSE "new")
            /\ InSeq(seen', req'[p].id)
            /\ dedup'[p] = "seen" =>
                  /\ pc'[p] = "done" /\ resp'[p] = 200
                  /\ sends'[p] = <<>> /\ posts'[p] = <<>> /\ invs'[p] = <<>>
    /\ \A p, q \in Procs :
          (p # q /\ Passed(p) /\ Passed(q)) => req'[p].id # req'[q].id
    /\ \A i, j \in 1..Len(inserted') :
          i # j => inserted'[i] # inserted'[j]
    /\ \A p \in Procs :
          (pc'[p] # "idle" /\ sends'[p] # <<>> /\ req'[p].id # NoId) =>
              dedup'[p] = "new"
C21_OnePassesDedup == [][C21_Step]_vars
C21_Witness ==
    \E p, q \in Procs :
        /\ p # q /\ req[p].id = 1 /\ req[q].id = 1
        /\ pc[p] = "lookup" /\ dedup[p] = "new"
        /\ Done(q) /\ dedup[q] = "seen" /\ resp[q] = 200
        /\ sends[q] = <<>> /\ invs[q] = <<>>

\* C22: when an invocation asked again for a fid whose cache entry was older
\* than the TTL, and the lookup failed or its answer left the fid out, the
\* result holds the old entry's snapshot, not the placeholder, and the entry
\* and its ts are as before, so a later invocation asks for the fid again; an
\* entry that did change carries the time of this invocation.
Expired(uc, f, t) == f \in DOMAIN uc /\ t - uc[f].ts > CACHE_TTL_MS
C22_Step ==
    \A p \in Procs :
        Resumes(p) =>
            LET inv == invs'[p][Len(invs[p])]
            IN  \A f \in Range(inv.need) :
                    Expired(userCache, f, inv.at) =>
                        /\ f \in DOMAIN userCache'
                        /\ inv.outcome = "failed" => userCache'[f] = userCache[f]
                        /\ userCache'[f] # userCache[f] =>
                              userCache'[f].ts = inv.at
                        /\ userCache'[f] = userCache[f] =>
                              /\ inv.out[f] = userCache[f].snap
                              /\ inv.out[f] # Placeholder(f)
                              /\ InSeq(Need(userCache', <<f>>, now'), f)
C22_ExpiredEntryServed == [][C22_Step]_vars
C22_Witness ==
    \E p \in Procs :
        /\ Done(p) /\ resp[p] = 200
        /\ \E k \in 1..Len(invs[p]) :
              /\ invs[p][k].outcome = "failed"
              /\ 1 \in Range(invs[p][k].need)
              /\ Expired(userCache, 1, invs[p][k].at)
              /\ invs[p][k].out[1] = userCache[1].snap
====
